---------------------------- MODULE Spec2Model ----------------------------
(***************************************************************************)
(* Model of scripts/migrate-from-sqlite.py: the SQLite -> PostgreSQL       *)
(* migration run (migrate_data), the SSH tunnel helpers                    *)
(* (create_ssh_tunnel, cleanup_tunnel) and the BLOB -> pgvector conversion *)
(* (blob_to_vector).                                                       *)
(*                                                                         *)
(* The script is single-threaded; the only concurrent entities are the     *)
(* ssh forwarding processes it launches and whatever else may already be   *)
(* listening on the local port.  Those are the environment actions.        *)
(*                                                                         *)
(* Environment assumptions: the external commands (lsof, ssh) can be run,  *)
(* and a forwarding process that receives SIGTERM exits within the bounded *)
(* wait of cleanup_tunnel.                                                 *)
(***************************************************************************)
EXTENDS Integers, Sequences, FiniteSets, TLC

\* ---------------------------------------------------------------- bounds
\* Number of records in the source memories table.
MaxMem == 2
\* Largest number of rows in the source memory_tags table.
MaxTags == 2

\* ------------------------------------------------------ program constants
ssh_hosts == <<"snowl", "snowball">>
\* range(10): the number of readiness polls of create_ssh_tunnel
PollCount == 10
\* struct format 'd': a float64 takes 8 bytes
DoubleSize == 8

\* Python's None for a text value; a vector literal always starts with "[".
None == "None"

VARIABLES
    pc,              \* position of migrate_data / create_ssh_tunnel
    error,           \* the uncaught exception that ended the run ("none" if none)
    secondRun,       \* TRUE once the script has been started a second time
    hostIdx,         \* index in ssh_hosts of the for loop's ssh_host (0 before the loop)
    tunnel_process,  \* migrate_data's tunnel_process: a pid, or 0 for None
    launched,        \* create_ssh_tunnel's tunnel_process: a pid, or 0 outside the call
    polls,           \* readiness polls done by the running create_ssh_tunnel
    procs,           \* the ssh processes launched: pid -> [host, state]
    bound,           \* the launched processes listening on the local port
    foreign,         \* TRUE iff a listener not launched by this run holds the local port
    sqlite_conn,     \* "none", "open", "closed"
    pg_conn,         \* "none", "open", "closed"
    source,          \* the SQLite database: [kinds, ntags]
    rows,            \* the rows of the last fetchall()
    i,               \* index in rows of the running for loop
    txn,             \* the destination's open transaction: inserts not yet committed
    dest_memories,   \* the destination's durable memories rows
    dest_tags,       \* the destination's durable memory_tags rows
    dest0,           \* history: the durable destination when this run started
    committed1,      \* history: dest_memories right after this run's first commit
    tagFailed,       \* history: the except clause of the memory_tags import ran
    log              \* history: the external commands and the steps of the run

vars == <<pc, error, secondRun, hostIdx, tunnel_process, launched, polls, procs,
          bound, foreign, sqlite_conn, pg_conn, source, rows, i, txn,
          dest_memories, dest_tags, dest0, committed1, tagFailed, log>>

tunnelVars == <<hostIdx, tunnel_process, launched, polls, procs, bound, foreign>>
destVars == <<txn, dest_memories, dest_tags>>
dataVars == <<rows, i, destVars, committed1, tagFailed>>

\* ------------------------------------------------------------ helpers
\* One entry of the history: an external command or a step of the run.  host
\* is the ssh host it names ("-" if none), n a pid or a memory id (0 if none).
Ev(e, h, n) == [ev |-> e, host |-> h, n |-> n]

\* A probe whose lsof always prints something.
Listening_Always == TRUE

\* lsof -Pi :port -sTCP:LISTEN -t prints something
Listening == foreign \/ bound # {}

Pids == 1..Len(procs)


\* ------------------------------------------------------------ VectorCodec
\* The bytes of the float64 values the model's payloads hold, in native
\* (little-endian) order, as struct.pack('d', v) writes them.
Bytes_1_0 == <<0, 0, 0, 0, 0, 0, 240, 63>>
Bytes_2_5 == <<0, 0, 0, 0, 0, 0, 4, 64>>
Bytes_1em5 == <<241, 104, 227, 136, 181, 248, 228, 62>>
Bytes_0_0 == <<0, 0, 0, 0, 0, 0, 0, 0>>

\* A BLOB value of the embeddings.vector column: NULL, or a byte string.
NullBlob == [null |-> TRUE, bytes |-> <<>>]
Blob(bs) == [null |-> FALSE, bytes |-> bs]

\* str(float): the shortest repr that round-trips, for the floats of the model.
str(d) ==
    CASE d = Bytes_1_0 -> "1.0"
      [] d = Bytes_2_5 -> "2.5"
      [] d = Bytes_1em5 -> "1e-05"
      [] d = Bytes_0_0 -> "0.0"

\* struct.calcsize(f'{n}d')
calcsize(n) == n * DoubleSize

\* An unpack that reads the first calcsize bytes and ignores what follows
\* (struct.unpack_from).
unpack_raises_Short(n, data) == Len(data) < calcsize(n)

\* struct.unpack(f'{n}d', data) raises struct.error unless data has exactly
\* calcsize bytes.
unpack_raises(n, data) == Len(data) # calcsize(n)

\* struct.unpack(f'{n}d', data): the n doubles, each as its 8 bytes.
unpack(n, data) ==
    [k \in 1..n |-> SubSeq(data, (k - 1) * DoubleSize + 1, k * DoubleSize)]

\* ','.join(map(str, vector))
RECURSIVE join(_)
join(vector) ==
    IF Len(vector) = 0 THEN ""
    ELSE IF Len(vector) = 1 THEN str(vector[1])
    ELSE str(vector[1]) \o "," \o join(Tail(vector))

\* float_count = len(blob_data) // 8
float_count(blob_data) == Len(blob_data.bytes) \div DoubleSize

\* blob_to_vector raises (struct.error) on this BLOB
blob_to_vector_raises(blob_data) ==
    /\ ~(blob_data.null \/ Len(blob_data.bytes) = 0)
    /\ unpack_raises(float_count(blob_data), blob_data.bytes)

\* A conversion that gives the empty literal for an empty BLOB.
blob_to_vector_EmptyLiteral(blob_data) ==
    IF blob_data.null
    THEN None
    ELSE "[" \o join(unpack(float_count(blob_data), blob_data.bytes)) \o "]"

\* blob_to_vector's return value where it does not raise
blob_to_vector(blob_data) ==
    IF blob_data.null \/ Len(blob_data.bytes) = 0
    THEN None
    ELSE "[" \o join(unpack(float_count(blob_data), blob_data.bytes)) \o "]"

\* ------------------------------------------------------------ the source
\* What a record of the source memories table may look like:
\*   "null"     embedding_id IS NULL
\*   "dangling" embedding_id names no row of embeddings
\*   "empty"    its embeddings row has a zero-length vector
\*   "vec"      its embeddings row has a vector of m float64 for memory id m
\*   "bad"      its embeddings row has those and 4 bytes more
Kinds == {"null", "dangling", "empty", "vec", "bad"}

\* The float64 values of the vectors, as bytes: 1.0, 2.5, 1e-05, 0.0, 0.0, ...
RECURSIVE Doubles(_)
Doubles(n) ==
    IF n = 0 THEN <<>>
    ELSE Doubles(n - 1) \o
         (CASE n = 1 -> Bytes_1_0
            [] n = 2 -> Bytes_2_5
            [] n = 3 -> Bytes_1em5
            [] OTHER -> Bytes_0_0)

Payload(kind, m) ==
    CASE kind = "empty" -> Blob(<<>>)
      [] kind = "vec" -> Blob(Doubles(m))
      [] kind = "bad" -> Blob(Doubles(m) \o <<0, 0, 0, 0>>)

MemIds == 1..MaxMem

\* The six scalar fields of a memories row that are copied as they are
\* (memory_id apart): project_id, content, content_type, metadata, created_at.
Fields(m) == <<"fields", m>>

Sources == [kinds : [MemIds -> Kinds], ntags : 0..MaxTags]

\* SELECT ... FROM memories m JOIN embeddings e ON m.embedding_id = e.embedding_id
\* in the table's storage order.
RECURSIVE SelectJoin(_, _)
SelectJoin(src, m) ==
    IF m > MaxMem THEN <<>>
    ELSE (IF src.kinds[m] \in {"null", "dangling"} THEN <<>>
          ELSE <<[memory_id |-> m, fields |-> Fields(m),
                  vector |-> Payload(src.kinds[m], m)]>>)
         \o SelectJoin(src, m + 1)

\* SELECT ... FROM memories m WHERE m.embedding_id IS NULL
RECURSIVE SelectNull(_, _)
SelectNull(src, m) ==
    IF m > MaxMem THEN <<>>
    ELSE (IF src.kinds[m] = "null"
          THEN <<[memory_id |-> m, fields |-> Fields(m)]>>
          ELSE <<>>)
         \o SelectNull(src, m + 1)

\* SELECT * FROM memory_tags: link k ties tag k to one of the memory ids
SelectTags(src) ==
    [k \in 1..src.ntags |-> [memory_id |-> ((k - 1) % MaxMem) + 1, tag_id |-> k]]


\* ------------------------------------------------------------ TunnelManager
\* What create_ssh_tunnel and cleanup_tunnel act on.
TunnelState == [log |-> log, procs |-> procs, bound |-> bound]

\* Popen.terminate() on the process create_ssh_tunnel launched (line 74):
\* SIGTERM is sent and nobody waits for the exit.
terminate(st, pid, host) ==
    [st EXCEPT
        !.log = Append(@, Ev("terminate", host, pid)),
        !.procs = IF st.procs[pid].state = "running"
                  THEN [@ EXCEPT ![pid].state = "signalled"]
                  ELSE @]

\* A release that does not look at whether the process has exited.
StillRunning_NoPoll(st, tp) == tp # 0

\* tunnel_process and tunnel_process.poll() is None
StillRunning(st, tp) == tp # 0 /\ st.procs[tp].state # "exited"

\* cleanup_tunnel(tunnel_process, ssh_host): ssh -O cancel for ssh_host, then
\* terminate() and wait(timeout=5)
cleanup_tunnel(st, tp, host) ==
    IF StillRunning(st, tp)
    THEN [log |-> st.log \o <<Ev("cancel", host, 0), Ev("terminate", host, tp)>>,
          procs |-> [st.procs EXCEPT ![tp].state = "exited"],
          bound |-> st.bound \ {tp}]
    ELSE st

SetTunnelState(st) ==
    /\ log' = st.log
    /\ procs' = st.procs
    /\ bound' = st.bound

\* An end by exception that makes the open transaction durable.
Abort_Commit(err) ==
    LET IsMem(e) == e.table = "memories"
        IsTag(e) == e.table = "memory_tags"
        mems == SelectSeq(txn, IsMem)
        tags == SelectSeq(txn, IsTag)
    IN
    /\ pc' = "aborted"
    /\ error' = err
    /\ txn' = <<>>
    /\ dest_memories' = dest_memories \o [k \in 1..Len(mems) |-> mems[k].row]
    /\ dest_tags' = dest_tags \o [k \in 1..Len(tags) |-> tags[k].row]

\* An uncaught exception ends the run; the destination drops the open
\* transaction with the connection.
Abort(err) ==
    /\ pc' = "aborted"
    /\ error' = err
    /\ txn' = <<>>
    /\ UNCHANGED <<dest_memories, dest_tags>>

\* ------------------------------------------------------------ the run
Init ==
    /\ pc = "start"
    /\ error = "none"
    /\ secondRun = FALSE
    /\ hostIdx = 0
    /\ tunnel_process = 0
    /\ launched = 0
    /\ polls = 0
    /\ procs = <<>>
    /\ bound = {}
    /\ foreign \in BOOLEAN
    /\ sqlite_conn = "none"
    /\ pg_conn = "none"
    /\ source \in Sources
    /\ rows = <<>>
    /\ i = 0
    /\ txn = <<>>
    /\ dest_memories = <<>>
    /\ dest_tags = <<>>
    /\ dest0 = [memories |-> <<>>, tags |-> <<>>]
    /\ committed1 = <<>>
    /\ tagFailed = FALSE
    /\ log = <<>>

\* lines 91-96
OpenSource ==
    /\ pc = "start"
    /\ sqlite_conn' = "open"
    /\ pc' = "loop"
    /\ UNCHANGED <<error, secondRun, tunnelVars, pg_conn, source, dataVars,
                   dest0, log>>

\* line 98: the for loop takes the next host, or is exhausted
NextHost ==
    /\ pc = "loop"
    /\ IF hostIdx < Len(ssh_hosts)
       THEN /\ hostIdx' = hostIdx + 1
            /\ log' = Append(log, Ev("try", ssh_hosts[hostIdx + 1], 0))
            /\ pc' = "probe"
       ELSE /\ pc' = "after_loop"
            /\ UNCHANGED <<hostIdx, log>>
    /\ UNCHANGED <<error, secondRun, tunnel_process, launched, polls, procs,
                   bound, foreign, sqlite_conn, pg_conn, source, dataVars, dest0>>

\* A probe that finds the port taken and launches all the same.
Probe_NoCancel ==
    /\ pc = "probe"
    /\ LET h == ssh_hosts[hostIdx] IN
       IF Listening
       THEN log' = Append(log, Ev("probe_busy", h, 0))
       ELSE log' = Append(log, Ev("probe_free", h, 0))
    /\ pc' = "launch"
    /\ UNCHANGED <<error, secondRun, hostIdx, tunnel_process, launched, polls,
                   procs, bound, foreign, sqlite_conn, pg_conn, source, dataVars,
                   dest0>>

\* create_ssh_tunnel, lines 42-49: probe the local port; if something
\* listens, ask ssh_host's master to cancel the forwarding (which may or may
\* not make the listener go away)
Probe ==
    /\ pc = "probe"
    /\ LET h == ssh_hosts[hostIdx] IN
       IF Listening
       THEN /\ log' = log \o <<Ev("probe_busy", h, 0), Ev("cancel", h, 0)>>
            /\ \E gone \in BOOLEAN : foreign' = (foreign /\ ~gone)
       ELSE /\ log' = Append(log, Ev("probe_free", h, 0))
            /\ UNCHANGED foreign
    /\ pc' = "launch"
    /\ UNCHANGED <<error, secondRun, hostIdx, tunnel_process, launched, polls,
                   procs, bound, sqlite_conn, pg_conn, source, dataVars, dest0>>

\* create_ssh_tunnel, lines 52-62: Popen of the forwarding ssh
Launch ==
    /\ pc = "launch"
    /\ LET h == ssh_hosts[hostIdx]
           pid == Len(procs) + 1
       IN /\ procs' = Append(procs, [host |-> h, state |-> "running"])
          /\ launched' = pid
          /\ log' = Append(log, Ev("launch", h, pid))
    /\ polls' = 0
    /\ pc' = "poll"
    /\ UNCHANGED <<error, secondRun, hostIdx, tunnel_process, bound, foreign,
                   sqlite_conn, pg_conn, source, dataVars, dest0>>

\* A polling loop that runs once more.
LastPoll_OneMore == polls + 1 >= PollCount + 1

\* line 65, for i in range(10): the poll at hand is the last one
LastPoll == polls + 1 >= PollCount

\* create_ssh_tunnel, lines 65-75, one turn of the polling loop: return the
\* handle (line 71, assigned at line 101), go on polling, or after the last
\* poll terminate the process and raise, which the except clause of the host
\* loop catches (lines 114-118)
Poll ==
    /\ pc = "poll"
    /\ LET h == ssh_hosts[hostIdx] IN
       IF Listening
       THEN /\ tunnel_process' = launched
            /\ launched' = 0
            /\ polls' = 0
            /\ pc' = "connect"
            /\ UNCHANGED <<log, procs, bound>>
       ELSE IF ~LastPoll
       THEN /\ polls' = polls + 1
            /\ UNCHANGED <<tunnel_process, launched, pc, log, procs, bound>>
       ELSE LET st1 == terminate(TunnelState, launched, h)
                st2 == [st1 EXCEPT !.log = Append(@, Ev("tunnel_failed", h, launched))]
                st3 == IF tunnel_process # 0
                       THEN cleanup_tunnel(
                              [st2 EXCEPT !.log = Append(@, Ev("release", h, tunnel_process))],
                              tunnel_process, h)
                       ELSE st2
            IN /\ SetTunnelState(st3)
               /\ tunnel_process' = 0
               /\ launched' = 0
               /\ polls' = 0
               /\ pc' = "loop"
    /\ UNCHANGED <<error, secondRun, hostIdx, foreign, sqlite_conn, pg_conn,
                   source, dataVars, dest0>>

\* A loop that goes on with the next host after a connection succeeded.
break_Missing == pc' = "loop"

\* line 112: break leaves the host loop
break == pc' = "after_loop"

\* lines 104-118: psycopg.connect through the local port; on success break,
\* on failure release this host's tunnel and go on with the next host
Connect ==
    /\ pc = "connect"
    /\ LET h == ssh_hosts[hostIdx] IN
       \E ok \in BOOLEAN :
         IF ok /\ Listening
         THEN /\ pg_conn' = "open"
              /\ log' = Append(log, Ev("connected", h, tunnel_process))
              /\ break
              /\ UNCHANGED <<tunnel_process, procs, bound>>
         ELSE /\ SetTunnelState(cleanup_tunnel(
                    [TunnelState EXCEPT !.log =
                        @ \o <<Ev("connect_failed", h, tunnel_process),
                               Ev("release", h, tunnel_process)>>],
                    tunnel_process, h))
              /\ tunnel_process' = 0
              /\ pc' = "loop"
              /\ UNCHANGED pg_conn
    /\ UNCHANGED <<error, secondRun, hostIdx, launched, polls, foreign,
                   sqlite_conn, source, dataVars, dest0>>

\* A check after the loop that lets a run without a connection go on.
CheckConnected_NoRaise ==
    /\ pc = "after_loop"
    /\ pc' = "query_with"
    /\ UNCHANGED <<error, destVars>>
    /\ UNCHANGED <<secondRun, tunnelVars, sqlite_conn, pg_conn, source, rows, i,
                   dest0, committed1, tagFailed, log>>

\* lines 120-122
CheckConnected ==
    /\ pc = "after_loop"
    /\ IF pg_conn = "none"
       THEN /\ Abort("NoReachableHost")
       ELSE /\ pc' = "query_with"
            /\ UNCHANGED <<error, destVars>>
    /\ UNCHANGED <<secondRun, tunnelVars, sqlite_conn, pg_conn, source, rows, i,
                   dest0, committed1, tagFailed, log>>


\* ------------------------------------------------------------ MigrationEngine
\* The rows of one table among the inserts of a transaction
RECURSIVE OfTable(_, _)
OfTable(t, table) ==
    IF t = <<>> THEN <<>>
    ELSE (IF Head(t).table = table THEN <<Head(t).row>> ELSE <<>>)
         \o OfTable(Tail(t), table)

\* An insert on a connection in autocommit mode: durable at once.
execute_insert_Autocommit(table, row) ==
    /\ dest_memories' = IF table = "memories"
                        THEN Append(dest_memories, row) ELSE dest_memories
    /\ dest_tags' = IF table = "memory_tags"
                    THEN Append(dest_tags, row) ELSE dest_tags
    /\ UNCHANGED txn

\* An insert that leaves out a row the destination already holds (an upsert).
execute_insert_Dedup(table, row) ==
    /\ txn' = IF row \in {dest_memories[k] : k \in 1..Len(dest_memories)}
                        \cup {dest_tags[k] : k \in 1..Len(dest_tags)}
              THEN txn
              ELSE Append(txn, [table |-> table, row |-> row])
    /\ UNCHANGED <<dest_memories, dest_tags>>

\* pg_cur.execute("INSERT INTO <table> ... VALUES ..."): the row joins the
\* open transaction; nothing is durable before the commit
execute_insert(table, row) ==
    /\ txn' = Append(txn, [table |-> table, row |-> row])
    /\ UNCHANGED <<dest_memories, dest_tags>>

\* pg_conn.commit(): the inserts of the open transaction become durable
commit ==
    /\ dest_memories' = dest_memories \o OfTable(txn, "memories")
    /\ dest_tags' = dest_tags \o OfTable(txn, "memory_tags")
    /\ txn' = <<>>

\* lines 125-139: the query for the memories with embeddings
QueryWith ==
    /\ pc = "query_with"
    /\ \E ok \in BOOLEAN :
         IF ok
         THEN /\ rows' = SelectJoin(source, 1)
              /\ i' = 1
              /\ pc' = "insert_with"
              /\ UNCHANGED <<error, destVars>>
         ELSE /\ Abort("source read failed")
              /\ UNCHANGED <<rows, i>>
    /\ log' = Append(log, Ev("query", "-", 0))
    /\ UNCHANGED <<secondRun, tunnelVars, sqlite_conn, pg_conn, source, dest0,
                   committed1, tagFailed>>

\* lines 142-153, one turn of the loop: convert the BLOB and insert the row
\* if the conversion gives a text
InsertWith ==
    /\ pc = "insert_with"
    /\ i <= Len(rows)
    /\ LET row == rows[i] IN
       IF blob_to_vector_raises(row.vector)
       THEN /\ Abort("struct.error")
            /\ UNCHANGED <<i, log>>
       ELSE LET vector_text == blob_to_vector(row.vector) IN
            IF vector_text # None /\ vector_text # ""
            THEN \E ok \in BOOLEAN :
                   IF ok
                   THEN /\ execute_insert("memories",
                                [memory_id |-> row.memory_id,
                                 fields |-> row.fields,
                                 embedding |-> vector_text])
                        /\ log' = Append(log, Ev("insert", "-", row.memory_id))
                        /\ i' = i + 1
                        /\ UNCHANGED <<pc, error>>
                   ELSE /\ Abort("insert failed")
                        /\ log' = Append(log, Ev("insert_failed", "-", row.memory_id))
                        /\ UNCHANGED i
            ELSE /\ i' = i + 1
                 /\ UNCHANGED <<pc, error, destVars, log>>
    /\ UNCHANGED <<secondRun, tunnelVars, sqlite_conn, pg_conn, source, rows,
                   dest0, committed1, tagFailed>>

\* lines 156-169: the query for the memories without embeddings
QueryWithout ==
    /\ pc = "insert_with"
    /\ i > Len(rows)
    /\ \E ok \in BOOLEAN :
         IF ok
         THEN /\ rows' = SelectNull(source, 1)
              /\ i' = 1
              /\ pc' = "insert_without"
              /\ UNCHANGED <<error, destVars>>
         ELSE /\ Abort("source read failed")
              /\ UNCHANGED <<rows, i>>
    /\ log' = Append(log, Ev("query", "-", 0))
    /\ UNCHANGED <<secondRun, tunnelVars, sqlite_conn, pg_conn, source, dest0,
                   committed1, tagFailed>>

\* lines 171-178, one turn of the loop: insert the row with a NULL embedding
InsertWithout ==
    /\ pc = "insert_without"
    /\ i <= Len(rows)
    /\ LET row == rows[i] IN
       \E ok \in BOOLEAN :
         IF ok
         THEN /\ execute_insert("memories",
                      [memory_id |-> row.memory_id,
                       fields |-> row.fields,
                       embedding |-> None])
              /\ log' = Append(log, Ev("insert", "-", row.memory_id))
              /\ i' = i + 1
              /\ UNCHANGED <<pc, error>>
         ELSE /\ Abort("insert failed")
              /\ log' = Append(log, Ev("insert_failed", "-", row.memory_id))
              /\ UNCHANGED i
    /\ UNCHANGED <<secondRun, tunnelVars, sqlite_conn, pg_conn, source, rows,
                   dest0, committed1, tagFailed>>

\* A run that leaves out the commit of line 181 and commits once, at the end.
Commit1_Missing ==
    /\ pc = "insert_without"
    /\ i > Len(rows)
    /\ pc' = "query_tags"
    /\ UNCHANGED <<error, secondRun, tunnelVars, sqlite_conn, pg_conn, source,
                   rows, i, destVars, dest0, committed1, tagFailed, log>>

\* line 181: the first commit
Commit1 ==
    /\ pc = "insert_without"
    /\ i > Len(rows)
    /\ \E ok \in BOOLEAN :
         IF ok
         THEN /\ commit
              /\ committed1' = dest_memories'
              /\ log' = Append(log, Ev("commit", "-", 0))
              /\ pc' = "query_tags"
              /\ UNCHANGED error
         ELSE /\ Abort("commit failed")
              /\ log' = Append(log, Ev("commit_failed", "-", 0))
              /\ UNCHANGED committed1
    /\ UNCHANGED <<secondRun, tunnelVars, sqlite_conn, pg_conn, source, rows, i,
                   dest0, tagFailed>>

\* A tag import without the try statement: the error ends the run.
except_tags_Uncaught ==
    /\ tagFailed' = TRUE
    /\ Abort("tag import failed")

\* The except clause of the memory_tags import, lines 198-199: the error is
\* printed and the run goes on after the try statement
except_tags ==
    /\ tagFailed' = TRUE
    /\ pc' = "close"
    /\ UNCHANGED <<error, destVars>>

\* lines 184-187
QueryTags ==
    /\ pc = "query_tags"
    /\ \E ok \in BOOLEAN :
         IF ok
         THEN /\ rows' = SelectTags(source)
              /\ i' = 1
              /\ pc' = "insert_tags"
              /\ UNCHANGED <<tagFailed, error, destVars>>
         ELSE /\ except_tags
              /\ UNCHANGED <<rows, i>>
    /\ log' = Append(log, Ev("query_tags", "-", 0))
    /\ UNCHANGED <<secondRun, tunnelVars, sqlite_conn, pg_conn, source, dest0,
                   committed1>>

\* lines 189-193, one turn of the loop
InsertTag ==
    /\ pc = "insert_tags"
    /\ i <= Len(rows)
    /\ \E ok \in BOOLEAN :
         IF ok
         THEN /\ execute_insert("memory_tags", rows[i])
              /\ log' = Append(log, Ev("insert_tag", "-", rows[i].memory_id))
              /\ i' = i + 1
              /\ UNCHANGED <<pc, tagFailed, error>>
         ELSE /\ except_tags
              /\ log' = Append(log, Ev("insert_tag_failed", "-", rows[i].memory_id))
              /\ UNCHANGED i
    /\ UNCHANGED <<secondRun, tunnelVars, sqlite_conn, pg_conn, source, rows,
                   dest0, committed1>>

\* lines 195-196: the second commit
Commit2 ==
    /\ pc = "insert_tags"
    /\ i > Len(rows)
    /\ \E ok \in BOOLEAN :
         IF ok
         THEN /\ commit
              /\ log' = Append(log, Ev("commit", "-", 0))
              /\ pc' = "close"
              /\ UNCHANGED <<tagFailed, error>>
         ELSE /\ except_tags
              /\ log' = Append(log, Ev("commit_failed", "-", 0))
    /\ UNCHANGED <<secondRun, tunnelVars, sqlite_conn, pg_conn, source, rows, i,
                   dest0, committed1>>

\* Close without line 202: the destination connection is left open.
Close_NoPgClose ==
    /\ pc = "close"
    /\ sqlite_conn' = "closed"
    /\ txn' = <<>>
    /\ log' = Append(log, Ev("close", "-", 0))
    /\ pc' = "cleanup"
    /\ UNCHANGED <<error, secondRun, tunnelVars, pg_conn, source, rows, i,
                   dest_memories, dest_tags, dest0, committed1, tagFailed>>

\* Close that commits the open transaction before closing.
Close_Commit ==
    /\ pc = "close"
    /\ sqlite_conn' = "closed"
    /\ pg_conn' = "closed"
    /\ commit
    /\ log' = Append(log, Ev("close", "-", 0))
    /\ pc' = "cleanup"
    /\ UNCHANGED <<error, secondRun, tunnelVars, source, rows, i, dest0,
                   committed1, tagFailed>>

\* lines 201-202: both connections are closed; an open transaction is lost
Close ==
    /\ pc = "close"
    /\ sqlite_conn' = "closed"
    /\ pg_conn' = "closed"
    /\ txn' = <<>>
    /\ log' = Append(log, Ev("close", "-", 0))
    /\ pc' = "cleanup"
    /\ UNCHANGED <<error, secondRun, tunnelVars, source, rows, i, dest_memories,
                   dest_tags, dest0, committed1, tagFailed>>

\* A final release that names the host the loop ended on.
FinalCleanup_ActualHost ==
    /\ pc = "cleanup"
    /\ IF tunnel_process # 0
       THEN SetTunnelState(cleanup_tunnel(
                [TunnelState EXCEPT !.log =
                    Append(@, Ev("release", ssh_hosts[hostIdx], tunnel_process))],
                tunnel_process, ssh_hosts[hostIdx]))
       ELSE UNCHANGED <<log, procs, bound>>
    /\ pc' = "done"
    /\ UNCHANGED <<error, secondRun, hostIdx, tunnel_process, launched, polls,
                   foreign, sqlite_conn, pg_conn, source, dataVars, dest0>>

\* lines 204-208: the tunnel is released under the name of ssh_hosts[0]
FinalCleanup ==
    /\ pc = "cleanup"
    /\ IF tunnel_process # 0
       THEN SetTunnelState(cleanup_tunnel(
                [TunnelState EXCEPT !.log =
                    Append(@, Ev("release", ssh_hosts[1], tunnel_process))],
                tunnel_process, ssh_hosts[1]))
       ELSE UNCHANGED <<log, procs, bound>>
    /\ pc' = "done"
    /\ UNCHANGED <<error, secondRun, hostIdx, tunnel_process, launched, polls,
                   foreign, sqlite_conn, pg_conn, source, dataVars, dest0>>

\* The operator starts the script again after a run that completed, against
\* the same source and the same destination.
Restart ==
    /\ pc = "done"
    /\ ~secondRun
    /\ secondRun' = TRUE
    /\ pc' = "start"
    /\ hostIdx' = 0
    /\ tunnel_process' = 0
    /\ procs' = <<>>
    /\ sqlite_conn' = "none"
    /\ pg_conn' = "none"
    /\ rows' = <<>>
    /\ i' = 0
    /\ dest0' = [memories |-> dest_memories, tags |-> dest_tags]
    /\ committed1' = <<>>
    /\ tagFailed' = FALSE
    /\ log' = <<>>
    /\ UNCHANGED <<error, launched, polls, bound, foreign, source, txn,
                   dest_memories, dest_tags>>

\* ------------------------------------------------------------ environment
Running == pc \notin {"done", "aborted"}

\* A forwarding ssh that runs starts to listen on the local port, if it is free
ProcBind(p) ==
    /\ Running
    /\ procs[p].state = "running"
    /\ ~Listening
    /\ bound' = {p}
    /\ UNCHANGED <<pc, error, secondRun, hostIdx, tunnel_process, launched, polls,
                   procs, foreign, sqlite_conn, pg_conn, source, dataVars, dest0,
                   log>>

\* A forwarding ssh exits: by itself, or on the SIGTERM it was sent
ProcExit(p) ==
    /\ Running
    /\ procs[p].state # "exited"
    /\ procs' = [procs EXCEPT ![p].state = "exited"]
    /\ bound' = bound \ {p}
    /\ UNCHANGED <<pc, error, secondRun, hostIdx, tunnel_process, launched, polls,
                   foreign, sqlite_conn, pg_conn, source, dataVars, dest0, log>>

Next ==
    \/ OpenSource
    \/ NextHost
    \/ Probe
    \/ Launch
    \/ Poll
    \/ Connect
    \/ CheckConnected
    \/ QueryWith
    \/ InsertWith
    \/ QueryWithout
    \/ InsertWithout
    \/ Commit1
    \/ QueryTags
    \/ InsertTag
    \/ Commit2
    \/ Close
    \/ FinalCleanup
    \/ \E p \in Pids : ProcBind(p)
    \/ \E p \in Pids : ProcExit(p)

\* One run of the script
Spec == Init /\ [][Next]_vars

NextTwice ==
    \/ Next
    \/ Restart

\* A run of the script and, if it completed, a second one
SpecTwice == Init /\ [][NextTwice]_vars


\* ------------------------------------------------------------ properties
Range(seq) == {seq[k] : k \in 1..Len(seq)}

\* The positions of the history that hold an event among evs
Positions(evs) == {k \in 1..Len(log) : log[k].ev \in evs}

\* The hosts the loop has taken, in order, and how each attempt ended
IsTry(e) == e.ev = "try"
IsResult(e) == e.ev \in {"tunnel_failed", "connect_failed", "connected"}
Attempts == SelectSeq(log, IsTry)
Results == SelectSeq(log, IsResult)

\* C1, as the claim states it for steps 4-6: a run that obtained a tunnel and
\* a destination connection and then ends on a failed insert, a failed
\* conversion or a failed first commit has called cleanup_tunnel after the
\* connection was made.
C1_ReleaseAfterWriteFailure ==
    (/\ pc = "aborted"
     /\ error \in {"insert failed", "struct.error", "commit failed"})
    => \E k \in Positions({"connected"}) :
         \E j \in Positions({"release"}) : j > k

\* C2: the host loop takes the hosts in the order of ssh_hosts, each at most
\* once, every attempt but the last one failed, and a connection once made
\* ends the loop; when the first host's tunnel never became ready and the
\* second host's attempt succeeded, the run is connected through the process
\* launched for the second host, after one launch for the first.
C2_HostOrder ==
    LET att == Attempts
        res == Results
        launches == Positions({"launch"})
    IN
    /\ Len(att) <= Len(ssh_hosts)
    /\ \A k \in 1..Len(att) : att[k].host = ssh_hosts[k]
    /\ Len(res) <= Len(att)
    /\ \A k \in 1..Len(res) :
         /\ res[k].host = ssh_hosts[k]
         /\ res[k].ev = "connected" => k = Len(att)
    /\ pg_conn # "none" =>
         /\ res # <<>>
         /\ res[Len(res)].ev = "connected"
         /\ tunnel_process = res[Len(res)].n
         /\ procs[tunnel_process].host = ssh_hosts[Len(res)]
    /\ (/\ Len(res) = 2
        /\ res[1].ev = "tunnel_failed"
        /\ res[2].ev = "connected") =>
         /\ pg_conn # "none"
         /\ procs[tunnel_process].host = ssh_hosts[2]
         /\ Cardinality({k \in launches : log[k].host = ssh_hosts[1]}) = 1
         /\ Cardinality(launches) = 2

C2_Witness ==
    /\ pc = "query_with"
    /\ Len(Results) = 2
    /\ Results[1].ev = "tunnel_failed"
    /\ Results[2].ev = "connected"
    /\ procs[tunnel_process].host = "snowball"

AllHostsFailed ==
    /\ Len(Results) = Len(ssh_hosts)
    /\ \A k \in 1..Len(Results) : Results[k].ev # "connected"

\* C3: once every host has failed and the loop is left, the run is aborted
\* with NoReachableHost; and a run aborted so has issued no source query, no
\* insert and no commit, and the destination is as it was when the run
\* started.
C3_NoReachableHost ==
    /\ (pc \notin {"loop", "after_loop"} /\ AllHostsFailed) =>
         (pc = "aborted" /\ error = "NoReachableHost")
    /\ (pc = "aborted" /\ error = "NoReachableHost") =>
         /\ AllHostsFailed
         /\ Positions({"query", "query_tags", "insert", "insert_failed",
                       "insert_tag", "insert_tag_failed", "commit",
                       "commit_failed"}) = {}
         /\ txn = <<>>
         /\ dest_memories = dest0.memories
         /\ dest_tags = dest0.tags

C3_Witness ==
    /\ pc = "aborted"
    /\ error = "NoReachableHost"
    /\ Results[1].ev = "tunnel_failed"
    /\ Results[2].ev = "connect_failed"


\* C4 (under SpecTwice, so also on a destination that holds rows): a run
\* aborted by a failed insert of a memories row has committed nothing: the
\* durable memories are those the destination held when the run started, and
\* no transaction is left open.
C4_InsertFailureCommitsNothing ==
    (pc = "aborted" /\ error = "insert failed") =>
        /\ dest_memories = dest0.memories
        /\ txn = <<>>
        /\ Positions({"commit"}) = {}

\* an insert failed after another memories row had been inserted
C4_Witness ==
    /\ pc = "aborted"
    /\ error = "insert failed"
    /\ Positions({"insert"}) # {}

\* C5: after a failure of the tag import the run is not aborted: it is at
\* the close, at the release or done; the durable memories are those of the
\* first commit, no memories row was inserted again; before the release both
\* connections are closed; a run that is done has called cleanup_tunnel
\* after the close and ended without an error.
C5_TagFailureCaught ==
    tagFailed =>
        /\ pc \in {"close", "cleanup", "done"}
        /\ error = "none"
        /\ dest_memories = committed1
        /\ Cardinality(Positions({"insert"})) = Len(committed1) - Len(dest0.memories)
        /\ \A k \in Positions({"insert", "insert_failed"}) :
             \A j \in Positions({"commit"}) : k < j
        /\ pc = "close" => ENABLED Close
        /\ pc = "cleanup" => ENABLED FinalCleanup
        /\ pc \in {"cleanup", "done"} =>
             (sqlite_conn = "closed" /\ pg_conn = "closed")
        /\ pc = "done" =>
             \E k \in Positions({"close"}) :
               \E j \in Positions({"release"}) : j > k

\* a run is done after a tag import that failed on its second link, with
\* memories rows committed before
C5_Witness ==
    /\ tagFailed
    /\ pc = "done"
    /\ Len(committed1) > Len(dest0.memories)
    /\ Positions({"insert_tag"}) # {}
    /\ Positions({"insert_tag_failed"}) # {}

\* The vector literal of m float64: 1.0, 2.5, 1e-05, 0.0, 0.0, ...
RECURSIVE Literal(_)
Literal(m) ==
    CASE m = 1 -> "[1.0"
      [] m = 2 -> "[1.0,2.5"
      [] m = 3 -> "[1.0,2.5,1e-05"
      [] OTHER -> Literal(m - 1) \o ",0.0"

\* The memories rows a complete migration of the source gives
ExpectedMemories(src) ==
    {[memory_id |-> m, fields |-> Fields(m), embedding |-> Literal(m) \o "]"] :
        m \in {x \in MemIds : src.kinds[x] = "vec"}}
    \cup
    {[memory_id |-> m, fields |-> Fields(m), embedding |-> None] :
        m \in {x \in MemIds : src.kinds[x] = "null"}}

\* C6: after a first run (on an empty destination) that is done without any
\* failure, the durable memories are, each once, a row with the vector literal
\* for every record whose embedding joins to a non-empty payload and a row
\* with a NULL embedding for every record without an embedding reference, and
\* nothing else; the durable tag links are those of the source, each once.
C6_CompleteMigration ==
    (pc = "done" /\ ~secondRun /\ ~tagFailed) =>
        /\ Range(dest_memories) = ExpectedMemories(source)
        /\ Len(dest_memories) = Cardinality(ExpectedMemories(source))
        /\ Range(dest_tags) = Range(SelectTags(source))
        /\ Len(dest_tags) = source.ntags

\* a complete first run over a record with an empty payload and a record
\* with a payload of two doubles, and two tag links
C6_Witness ==
    /\ pc = "done" /\ ~secondRun /\ ~tagFailed
    /\ source.kinds[1] = "empty"
    /\ source.kinds[2] = "vec"
    /\ source.ntags = 2
    /\ Len(dest_memories) = 1
    /\ dest_memories[1].embedding = "[1.0,2.5]"

Count(seq, x) == Cardinality({k \in 1..Len(seq) : seq[k] = x})

\* C7 (under SpecTwice): after a second run that is done without any failure, every memories
\* row and every tag link the destination held after the first run is held
\* twice as often.
C7_SecondRunDuplicates ==
    (pc = "done" /\ secondRun /\ ~tagFailed) =>
        /\ \A r \in Range(dest0.memories) :
             Count(dest_memories, r) = 2 * Count(dest0.memories, r)
        /\ \A t \in Range(dest0.tags) :
             Count(dest_tags, t) = 2 * Count(dest0.tags, t)
        /\ Len(dest_memories) = 2 * Len(dest0.memories)

C7_Witness ==
    /\ pc = "done" /\ secondRun /\ ~tagFailed
    /\ Len(dest0.memories) = 2
    /\ Len(dest0.tags) = 2
    /\ Len(dest_memories) = 4
    /\ Len(dest_tags) = 4


\* The order of the history: every launch comes right after the probe that
\* found the port free, or right after the cancellation that followed the
\* probe that found it taken, all three naming the same host; a probe that
\* found the port taken is followed at once by the cancellation, one that
\* found it free by the launch.
C8_LaunchOrder ==
    /\ \A k \in Positions({"launch"}) :
         /\ k >= 2
         /\ log[k - 1].host = log[k].host
         /\ \/ log[k - 1].ev = "probe_free"
            \/ /\ log[k - 1].ev = "cancel"
               /\ k >= 3
               /\ log[k - 2] = Ev("probe_busy", log[k].host, 0)
    /\ \A k \in Positions({"probe_busy"}) :
         /\ k < Len(log)
         /\ log[k + 1] = Ev("cancel", log[k].host, 0)
    /\ \A k \in Positions({"probe_free"}) :
         k < Len(log) => log[k + 1].ev = "launch"

\* The step of the probe: it issues the cancellation exactly when something
\* listens on the local port, and nothing but the probe's report otherwise.
C8_ProbeStep ==
    (pc = "probe" /\ pc' = "launch") =>
        /\ Len(log') > Len(log)
        /\ Listening <=> log'[Len(log')] = Ev("cancel", ssh_hosts[hostIdx], 0)
        /\ ~Listening <=> log' = Append(log, Ev("probe_free", ssh_hosts[hostIdx], 0))

\* C8: whenever the probe of create_ssh_tunnel finds a listener on the local
\* port, a cancellation is issued before the new forwarding process is
\* launched; when it finds none, no cancellation is issued and the launch
\* follows directly.
C8_CancelBeforeLaunch == []C8_LaunchOrder /\ [][C8_ProbeStep]_vars

\* one launch was made after a cancellation, the next one on a free port
C8_Witness ==
    \E k \in Positions({"launch"}) :
      \E j \in Positions({"launch"}) :
        /\ k < j
        /\ log[k - 1].ev = "cancel"
        /\ log[j - 1].ev = "probe_free"

\* A turn of the polling loop is one of at most PollCount; it returns the
\* launched process as the handle exactly when it sees a listener; when the
\* last one sees none the launched process is sent the terminate, the
\* attempt fails and the run holds no handle; otherwise the loop polls again.
C9_PollStep ==
    (pc = "poll" /\ (pc' # "poll" \/ polls' # polls)) =>
        /\ polls + 1 <= PollCount
        /\ launched # 0
        /\ IF Listening
           THEN /\ pc' = "connect"
                /\ tunnel_process' = launched
                /\ UNCHANGED <<procs, log>>
           ELSE IF polls + 1 < PollCount
           THEN /\ pc' = "poll"
                /\ polls' = polls + 1
                /\ UNCHANGED <<tunnel_process, procs, log>>
           ELSE /\ pc' = "loop"
                /\ tunnel_process' = 0
                /\ procs'[launched].state # "running"
                /\ log' = log \o <<Ev("terminate", ssh_hosts[hostIdx], launched),
                                   Ev("tunnel_failed", ssh_hosts[hostIdx], launched)>>

\* C9: create_ssh_tunnel finishes after at most PollCount readiness polls: it
\* returns a handle at the first poll that sees a listener, and when none of
\* the polls sees one it terminates the process it launched and fails,
\* returning no handle.
C9_BoundedPolling == [][C9_PollStep]_vars

\* the first host's attempt failed after the last poll and the second host's
\* returned a handle
C9_Witness ==
    /\ pc = "connect"
    /\ Positions({"tunnel_failed"}) # {}
    /\ tunnel_process = 2

\* C10: in every state, cleanup_tunnel on no handle, or on a handle whose
\* process has exited (by itself or by an earlier release), changes nothing:
\* no command is issued and no process is touched; and on any handle a second
\* cleanup_tunnel changes nothing the first has not.
C10_ReleaseNoOp ==
    \A tp \in 0..Len(procs) :
      \A h \in Range(ssh_hosts) :
        LET once == cleanup_tunnel(TunnelState, tp, h) IN
        /\ (tp = 0 \/ procs[tp].state = "exited") => once = TunnelState
        /\ cleanup_tunnel(once, tp, h) = once

\* the run has called cleanup_tunnel on a handle whose process had exited,
\* and on one that was running
C10_Witness ==
    /\ \E k \in Positions({"release"}) :
         /\ k = Len(log) \/ log[k + 1].ev # "cancel"
         /\ procs[log[k].n].state = "exited"
    /\ \E k \in Positions({"release"}) :
         k < Len(log) /\ log[k + 1].ev = "cancel"

\* ------------------------------------------------------------ C11
\* The order of the resources in the history of one run.
C11_Order ==
    LET conn == Positions({"connected"})
        writes == Positions({"insert", "insert_failed", "insert_tag",
                             "insert_tag_failed", "commit", "commit_failed"})
        closes == Positions({"close"})
    IN
    /\ \A c \in conn :
         \E l \in Positions({"launch"}) :
           l < c /\ log[l].n = log[c].n /\ log[l].host = log[c].host
    /\ (pg_conn # "none") <=> (conn # {})
    /\ (pg_conn = "closed") <=> (closes # {})
    /\ \A w \in writes :
         /\ \E c \in conn : c < w
         /\ \A x \in closes : w < x
    /\ \A r \in Positions({"release"}) :
         (\E c \in conn : c < r) =>
            /\ \E x \in closes : x < r
            /\ pg_conn = "closed"
            /\ sqlite_conn = "closed"

\* A step that adds an insert to the transaction or makes rows durable is
\* taken on an open destination connection.
C11_Step ==
    (\/ Len(txn') > Len(txn)
     \/ dest_memories' # dest_memories
     \/ dest_tags' # dest_tags)
    => (pg_conn = "open" /\ pg_conn' = "open")

\* C11: over a whole run the tunnel process of the connection was launched
\* before the destination connection was opened, the connection was opened
\* before any insert or commit, every insert and commit is made while the
\* connection is open, and when cleanup_tunnel is called for the tunnel of the
\* connection both connections have been closed; the destination connection
\* is never open once that tunnel has been released.
C11_ResourceOrder == []C11_Order /\ [][C11_Step]_vars

\* a run is done that failed to connect through the first host (and released
\* that tunnel), connected through the second, inserted, committed, closed
\* and released
C11_Witness ==
    /\ pc = "done"
    /\ Positions({"connect_failed"}) # {}
    /\ \E c \in Positions({"connected"}) :
         \E w \in Positions({"insert"}) :
           \E m \in Positions({"commit"}) :
             \E x \in Positions({"close"}) :
               \E r \in Positions({"release"}) :
                 c < w /\ w < m /\ m < x /\ x < r

\* ------------------------------------------------------------ C12
\* What blob_to_vector does with the BLOB of the row the loop is at, and what
\* a run aborted by struct.error has done.
C12_Decode ==
    /\ ~blob_to_vector_raises(NullBlob)
    /\ blob_to_vector(NullBlob) = None
    /\ (pc = "insert_with" /\ i <= Len(rows)) =>
         LET b == rows[i].vector IN
         /\ Len(b.bytes) = 0 =>
              (~blob_to_vector_raises(b) /\ blob_to_vector(b) = None)
         /\ Len(b.bytes) % DoubleSize # 0 => blob_to_vector_raises(b)
         /\ (Len(b.bytes) # 0 /\ Len(b.bytes) % DoubleSize = 0) =>
              (~blob_to_vector_raises(b) /\ blob_to_vector(b) # None)
    /\ error = "struct.error" =>
         /\ pc = "aborted"
         /\ Positions({"commit", "commit_failed"}) = {}
         /\ dest_memories = dest0.memories
         /\ dest_tags = dest0.tags
    /\ \A k \in 1..Len(txn) :
         txn[k].table = "memories" => source.kinds[txn[k].row.memory_id] # "bad"

\* The turn of the loop at a BLOB whose length is no multiple of 8 ends the
\* run with struct.error and inserts nothing.
C12_Step ==
    (/\ pc = "insert_with"
     /\ i <= Len(rows)
     /\ Len(rows[i].vector.bytes) % DoubleSize # 0
     /\ <<pc, i>>' # <<pc, i>>)
    => /\ pc' = "aborted"
       /\ error' = "struct.error"
       /\ txn' = <<>>
       /\ UNCHANGED <<dest_memories, dest_tags, log>>

\* C12: blob_to_vector on a non-empty BLOB whose length is no multiple of 8
\* raises and gives no literal (not that of the first len // 8 values), in the
\* engine this aborts the run before the first commit with nothing durable,
\* and on an empty or absent BLOB blob_to_vector returns None.
C12_DecodeError == []C12_Decode /\ [][C12_Step]_vars

\* a run was aborted by struct.error at its second row, after an insert
C12_Witness ==
    /\ pc = "aborted"
    /\ error = "struct.error"
    /\ Positions({"insert"}) # {}
    /\ i <= Len(rows)
    /\ Len(rows[i].vector.bytes) % DoubleSize # 0

\* ------------------------------------------------------------ C13
\* C13: at the start of every acquisition attempt (the loop has taken a
\* host and create_ssh_tunnel begins with its probe), and when the run has
\* failed with NoReachableHost, no forwarding process this run launched for
\* an earlier host is still running: each has exited.
C13_EarlierTunnelsReleased ==
    (\/ pc = "probe"
     \/ (pc = "aborted" /\ error = "NoReachableHost"))
    => \A p \in Pids : procs[p].state = "exited"

\* ------------------------------------------------------------ C14
\* C14: the release at the end of a run (the cleanup_tunnel after the two
\* close() calls) is for the process launched for the host the connection
\* was made through, and its cancellation command names ssh_hosts[0],
\* whichever host that was; the process it terminates is that of the
\* connection.
C14_FinalReleaseNamesFirstHost ==
    \A r \in Positions({"release"}) :
      (\E x \in Positions({"close"}) : x < r) =>
        /\ log[r].host = ssh_hosts[1]
        /\ log[r].n = tunnel_process
        /\ \E c \in Positions({"connected"}) :
             /\ log[c].n = tunnel_process
             /\ procs[tunnel_process].host = log[c].host
        /\ r < Len(log) =>
             /\ Len(log) = r + 2
             /\ log[r + 1] = Ev("cancel", ssh_hosts[1], 0)
             /\ log[r + 2] = Ev("terminate", ssh_hosts[1], tunnel_process)
             /\ procs[tunnel_process].state = "exited"

\* the connection was made through the second host and the final release
\* cancelled under the name of the first and terminated the second's process
C14_Witness ==
    /\ pc = "done"
    /\ tunnel_process # 0
    /\ procs[tunnel_process].host = ssh_hosts[2]
    /\ Len(log) > 2
    /\ log[Len(log) - 1] = Ev("cancel", ssh_hosts[1], 0)
    /\ log[Len(log)] = Ev("terminate", ssh_hosts[1], tunnel_process)

\* ------------------------------------------------------------ C15
\* C15: when a record query against the source fails, no insert has yet been
\* issued against the destination.
C15_NoInsertBeforeReadFailure ==
    (pc = "aborted" /\ error = "source read failed")
    => Positions({"insert", "insert_failed"}) = {}

\* C15, as the code has it: a failed record query ends the run at once, before
\* anything is committed: no commit has been issued, no tag link inserted and
\* the destination holds what it held before the run. When it is the first
\* query that failed no insert has been issued; when it is the second, the
\* inserts of the records with embeddings have been issued and are lost with
\* the transaction.
C15_ReadFailureCommitsNothing ==
    (pc = "aborted" /\ error = "source read failed") =>
      /\ log[Len(log)].ev = "query"
      /\ Positions({"commit", "commit_failed", "query_tags", "insert_tag",
                    "insert_tag_failed"}) = {}
      /\ txn = <<>>
      /\ dest_memories = dest0.memories
      /\ dest_tags = dest0.tags
      /\ Cardinality(Positions({"query"})) \in {1, 2}
      /\ Cardinality(Positions({"query"})) = 1 =>
           Positions({"insert", "insert_failed"}) = {}
      /\ Positions({"insert_failed"}) = {}

\* the second record query failed after a row with an embedding was inserted
C15_Witness ==
    /\ pc = "aborted"
    /\ error = "source read failed"
    /\ Cardinality(Positions({"query"})) = 2
    /\ Positions({"insert"}) # {}

\* ------------------------------------------------------------ C16
\* C16: every tag link inserted at the destination is inserted after the
\* first commit, and its memory id is the id of a memories row this run has
\* inserted.
C16_TagLinksReferenceMigrated ==
    \A k \in Positions({"insert_tag"}) :
      /\ \E c \in Positions({"commit"}) : c < k
      /\ \E j \in Positions({"insert"}) : j < k /\ log[j].n = log[k].n

\* ------------------------------------------------------------ C17
\* C17: a run issues at most two commits; the first comes after every insert
\* of the records with and without embedding has been executed, so no commit
\* lies between two of those inserts; the second comes after every tag-link
\* insert; and a run that is done without a failure has issued exactly two,
\* both successful.
C17_TwoCommits ==
    LET commits == Positions({"commit", "commit_failed"})
        ins == Positions({"insert", "insert_failed"})
        tags == Positions({"insert_tag", "insert_tag_failed"})
    IN
    /\ Cardinality(commits) <= 2
    /\ \A c \in commits : \A w \in ins : w < c
    /\ commits # {} =>
         /\ Cardinality(Positions({"query"})) = 2
         /\ Cardinality(Positions({"insert"})) =
              Cardinality({m \in MemIds : source.kinds[m] \in {"vec", "null"}})
    /\ \A t \in tags : \E c \in commits : c < t /\ log[c].ev = "commit"
    /\ Cardinality(commits) = 2 =>
         /\ \E c \in commits : \A t \in tags : t < c
         /\ Cardinality(Positions({"insert_tag"})) = source.ntags
    /\ (pc = "done" /\ ~tagFailed) =>
         /\ Cardinality(Positions({"commit"})) = 2
         /\ Positions({"commit_failed"}) = {}

\* a run is done without a failure after two memories inserts and a tag-link
\* insert
C17_Witness ==
    /\ pc = "done"
    /\ ~tagFailed
    /\ Cardinality(Positions({"insert"})) >= 2
    /\ Positions({"insert_tag"}) # {}
    /\ Cardinality(Positions({"commit"})) = 2

\* ------------------------------------------------------------ C18
\* The step by which create_ssh_tunnel returns its handle: the process of the
\* handle is running and is the one listening on the local port.
C18_ReturnStep ==
    (pc = "poll" /\ pc' = "connect") =>
      /\ procs[launched].state = "running"
      /\ bound = {launched}

\* C18: whenever create_ssh_tunnel returns a handle, the process of that
\* handle is still running and is the listener the poll saw on the local
\* port; a listener that was on the port before the launch is not taken for
\* the new process.
C18_HandleIsListener == [][C18_ReturnStep]_vars

\* The step by which create_ssh_tunnel returns its handle, as the code has
\* it: the handle is the process this call launched for the host of the
\* attempt, and the poll saw a listener on the local port, which is that
\* process or a listener that was there before the launch; in the second case
\* the probe of this call had found the port taken and issued its cancel.
C18_ReadyStep ==
    (pc = "poll" /\ pc' = "connect") =>
      /\ tunnel_process' = launched
      /\ launched = Len(procs)
      /\ procs[launched].host = ssh_hosts[hostIdx]
      /\ foreign \/ bound # {}
      /\ bound \subseteq {launched}
      /\ ~foreign => (bound = {launched} /\ procs[launched].state = "running")
      /\ foreign =>
           \E k \in Positions({"probe_busy"}) :
             /\ log[k + 1] = Ev("cancel", ssh_hosts[hostIdx], 0)
             /\ log[k + 2] = Ev("launch", ssh_hosts[hostIdx], launched)

\* C18, as the code has it: create_ssh_tunnel returns the handle of the
\* process it launched as soon as a poll sees any listener on the local
\* port, the new process or one that survived the cancel.
C18_ReadyOnAnyListener == [][C18_ReadyStep]_vars

\* a handle was returned while a listener from before the launch held the
\* port and the launched process was not listening
C18_Witness ==
    /\ pc = "connect"
    /\ foreign
    /\ tunnel_process # 0
    /\ tunnel_process \notin bound
    /\ Positions({"cancel"}) # {}

\* ------------------------------------------------------------ C19
\* C19 (under SpecTwice): the tag links of a run become durable all together
\* or not at all: the destination holds the tag links it held before the run,
\* alone or followed by every tag link of the source; and once a tag-link
\* insert, the tag query or the second commit has failed it holds only those
\* from before the run, the memories rows of the first commit stay, and after
\* the close() calls no transaction is open that could still bring any in.
C19_TagLinksAllOrNothing ==
    /\ dest_tags \in {dest0.tags, dest0.tags \o SelectTags(source)}
    /\ tagFailed =>
         /\ dest_tags = dest0.tags
         /\ dest_memories = committed1
         /\ pc \in {"close", "cleanup", "done"}
         /\ pc \in {"cleanup", "done"} => txn = <<>>

\* a run is done whose second tag-link insert (or second commit) failed
\* after a tag link had been inserted
C19_Witness ==
    /\ pc = "done"
    /\ tagFailed
    /\ Positions({"insert_tag"}) # {}
    /\ Positions({"insert_tag_failed", "commit_failed"}) # {}
    /\ dest_tags = dest0.tags

=============================================================================
